---- MODULE Spec2Model ----
(***************************************************************************)
(* The database core of src/server.py (class Database, lines 31-460) as a  *)
(* state machine: the process-wide Database object `db`, the connection    *)
(* pool it owns, and the request threads of app.run(threaded=True) that    *)
(* call its methods.  Every method is cut into steps at the places where   *)
(* it reads or writes the shared object or talks to the MySQL driver, so   *)
(* that the interleavings of concurrent requests are the model's           *)
(* behaviours.  The MySQL server and driver are the environment: what a    *)
(* driver call does is chosen from what the server's condition allows.     *)
(***************************************************************************)
EXTENDS Naturals, Sequences, FiniteSets

\* ------------------------------------------------------------------ bounds

\* Pool objects the driver is asked to build successfully in one behaviour.
MaxPools == 2
\* The failure counter is unbounded in the code; steps that increment it are
\* enabled below this value only.
MaxErrCount == 5
\* Rows a SELECT returns, and rows a write affects, at most.
MaxRows == 1
\* The length of a title or description, at most.
MaxLen == 1

\* ------------------------------------------------------- program constants

\* self._max_retries = 3
_max_retries == 3
\* 'pool_size': 5
pool_size == 5
\* the four CREATE TABLE statements of create_tables
NumTables == 4
\* tables_to_check in fix_database_issues
NumTablesToCheck == 4
\* basic_settings in fix_database_issues
NumSettings == 8

\* Request threads (app.run(threaded=True)).
Threads == {1, 2}

\* ------------------------------------------------------------------- state

VARIABLES
    pool,               \* db.pool: 0 is None, n > 0 the n-th pool object built
    _initialized,       \* db._initialized
    _connection_error,  \* db._connection_error
    _error_count,       \* db._error_count
    poolFree,           \* connections waiting in the current pool's queue
    poolsBuilt,         \* pool objects constructed so far
    attempted,          \* a pool construction has been attempted
    tables,             \* the rows of admin_users and settings on the server
    web,                \* the last API request served and its response
    started,            \* a request has called into the Database object
    dbState,            \* the MySQL server: "up", "down" or "flaky"
    th                  \* per thread: the running operation and its frames

vars == <<pool, _initialized, _connection_error, _error_count, poolFree,
          poolsBuilt, attempted, tables, web, started, dbState, th>>

\* The Database object and its callers' threads, which the API handlers
\* below reach only through the results of db's methods.
core == <<pool, _initialized, _connection_error, _error_count, poolFree,
          poolsBuilt, attempted, started, dbState, th>>

shared == <<pool, _initialized, _connection_error, _error_count, poolFree,
            poolsBuilt, attempted, tables>>

\* ------------------------------------------------------------------ values

None == 0

\* Python values a method returns: None, a bool, an int (cursor.rowcount), a
\* list of rows (its length), a connection (its pool).
NoneV == [k |-> "None", n |-> 0]
BoolV(b) == [k |-> "bool", n |-> IF b THEN 1 ELSE 0]
IntV(n) == [k |-> "int", n |-> n]
RowsV(n) == [k |-> "rows", n |-> n]
ConnV(p) == [k |-> "conn", n |-> p]

\* Python truthiness: None, False, 0 and [] are falsy.
Truthy(v) == v.k # "None" /\ (v.k \in {"bool", "int", "rows"} => v.n # 0)

\* Exceptions: the class (mysql.connector.Error or another Exception) and
\* which of the messages the code looks for str(e) holds.
NoExc == [cls |-> "none", msg |-> "none"]
Ok == NoExc
Exc(c, m) == [cls |-> c, msg |-> m]
Faults == {Exc(c, m) : c \in {"Error", "Other"},
                       m \in {"bytearray", "notavail", "plain"}}

\* "bytearray index out of range" in str(e) / "MySQL Connection not available"
IsTransient(e) == e.msg \in {"bytearray", "notavail"}
\* except Error as e
IsError(e) == e.cls = "Error"

\* --------------------------------------------------------- the environment

\* The driver calls that talk to the server; cursor() and the two close()
\* calls may get by without it.
NetCalls == {"execute", "fetchone", "fetchall", "commit", "rollback"}

\* What a driver call that talks to the server can do: succeed when the
\* server is up, fail when it is down, either when it is flaky.
NetOutcomes ==
    CASE dbState = "up" -> {Ok}
      [] dbState = "down" -> Faults
      [] OTHER -> {Ok} \cup Faults

\* What a driver call that may not reach the server can do.
LocalOutcomes == IF dbState = "up" THEN {Ok} ELSE {Ok} \cup Faults

\* live: whether the connection the call goes through is connected.
CallOutcomes(call, live) ==
    IF call \in NetCalls
    THEN (IF live THEN NetOutcomes ELSE Faults)
    ELSE LocalOutcomes

\* A run of driver calls stops at its first fault: [at |-> 0] is the run with
\* no fault, [at |-> k, e |-> x] the run whose k-th call raises x.
NoFault == [at |-> 0, e |-> Ok]

AllOk(calls, live, upto) ==
    \A j \in 1..upto : Ok \in CallOutcomes(calls[j], live)

Plans(calls, live) ==
    (IF AllOk(calls, live, Len(calls)) THEN {NoFault} ELSE {})
    \cup
    {[at |-> p[1], e |-> p[2]] : p \in
        {q \in (1..Len(calls)) \X Faults :
            /\ q[2] \in CallOutcomes(calls[q[1]], live)
            /\ AllOk(calls, live, q[1] - 1)}}

\* Where a run stopped: "ok", or the call that raised.
RunOf(calls, p) == IF p.at = 0 THEN "ok" ELSE calls[p.at]

\* ------------------------------------------------------------- the tables

\* What the server holds: whether the four tables exist, the rows of
\* admin_users with username 'admin', and the rows of settings per default
\* key.  With open set the content is left open: a SELECT may return any
\* number of rows and an INSERT may affect any.
SettingKeys == 1..NumSettings

\* Text values: strings over a blank and a letter, up to MaxLen long.
Chars == {" ", "x"}

Texts == UNION {[1..n -> Chars] : n \in 0..MaxLen}

\* dict.get() of a key that is not there
Absent == <<"None">>

\* The ids of the rows of projects, and a row: its title and description.
ProjectIds == {1}

NoRow == [live |-> FALSE, title |-> <<>>, description |-> <<>>]

Row(title, description) ==
    [live |-> TRUE, title |-> title, description |-> description]

OpenTables ==
    [open |-> TRUE, schema |-> FALSE, admin |-> 0,
     settings |-> [k \in SettingKeys |-> 0],
     projects |-> [i \in ProjectIds |-> NoRow]]

\* A request not yet made, and a method of db not called.
NotCalled == [k |-> "uncalled", n |-> 0]

NoRequest ==
    [h |-> "none", status |-> 0, success |-> FALSE,
     sel |-> NotCalled, wr |-> NotCalled, res |-> "none"]

EmptyServer == [OpenTables EXCEPT !.open = FALSE]

\* The statements of the bootstrap, by what they touch: q is "create"
\* (CREATE TABLE IF NOT EXISTS), "table" (the INFORMATION_SCHEMA lookup),
\* "admin" or "setting" (with its key); any other statement is "other".
\* The rows a SELECT of that kind finds.
Found(q, key) ==
    CASE q = "table" -> IF tables.schema THEN 1 ELSE 0
      [] q = "admin" -> tables.admin
      [] q = "setting" -> tables.settings[key]
      [] OTHER -> 0

\* Tables without the unique keys: no INSERT is refused.
NoUniqueKey(q, key) == FALSE

\* Tables where only username is unique: a second row for a setting key is
\* accepted.
NoUniqueSettingKey(q, key) == q = "admin" /\ Found(q, key) > 0

\* username VARCHAR(100) UNIQUE (line 305), setting_key VARCHAR(100) UNIQUE
\* (line 319): an INSERT of a value that is there is refused.
UniqueKeyRefuses(q, key) ==
    q \in {"admin", "setting"} /\ Found(q, key) > 0

\* The tables once a write statement of that kind has run.
Written(q, key) ==
    CASE q = "create" -> [tables EXCEPT !.schema = TRUE]
      [] q = "admin" -> [tables EXCEPT !.admin = @ + 1]
      [] q = "setting" -> [tables EXCEPT !.settings[key] = @ + 1]
      [] OTHER -> tables

\* The rows a SELECT of that kind may return, and the rows a write of that
\* kind may affect.
RowsFound(q, key) ==
    IF tables.open \/ q = "other" THEN 0..MaxRows ELSE {Found(q, key)}

RowsAffected(q) ==
    CASE tables.open \/ q = "other" -> 0..MaxRows
      [] q = "create" -> {0}
      [] OTHER -> {1}

\* The server refuses the statement (mysql.connector.Error from execute):
\* its table is not there, or a unique key forbids the INSERT.
Refused(isWrite, q, key) ==
    /\ ~tables.open
    /\ \/ q \in {"admin", "setting"} /\ ~tables.schema
       \/ isWrite /\ UniqueKeyRefuses(q, key)

\* The runs of a statement's driver calls: those the connection allows, the
\* execute (the second call) raising where the server refuses the statement.
StmtPlans(calls, live, refused) ==
    IF ~refused THEN Plans(calls, live)
    ELSE {IF p.at = 0 \/ p.at > 2
          THEN [at |-> 2, e |-> Exc("Error", "plain")] ELSE p :
             p \in Plans(calls, live)}

\* 'autocommit': True (line 72): a write that got through execute is on the
\* server whatever becomes of the commit() after it.
Applied(p) == p.at = 0 \/ p.at > 2

\* ----------------------------------------------------------------- threads

IdleThread ==
    [op |-> "idle", stk |-> <<>>, conn |-> None, live |-> FALSE, cur |-> FALSE,
     pend |-> NoneV, ret |-> NoneV, exc |-> NoExc, i |-> 0, succ |-> 0,
     run |-> "none", rows |-> 0, rb |-> "none", q |-> "other", key |-> 0,
     leaked |-> FALSE, stmts |-> FALSE, s3 |-> FALSE, sOver |-> FALSE,
     fresh |-> FALSE, below |-> FALSE, probe |-> "none", fail |-> FALSE]

pc(t) == IF th[t].stk = <<>> THEN "idle" ELSE Head(th[t].stk)

Quiet(t) == pc(t) \in {"idle", "done"}

\* Frame moves on a thread record.
GotoR(r, l) == [r EXCEPT !.stk = <<l>> \o Tail(r.stk)]
CallR(r, frames) == [r EXCEPT !.stk = frames \o Tail(r.stk)]
RetR(r, v) == [r EXCEPT !.stk = Tail(r.stk), !.ret = v]

Upd(t, r) == th' = [th EXCEPT ![t] = r]

\* The frames a call pushes: the callee's first step and, for a method that
\* starts by calling another, the steps that take over when that one returns.
Frames(fn) ==
    CASE fn = "_init_pool" -> <<"ip_56">>
      [] fn = "is_connected" -> <<"gc_103", "ic_150">>
      [] fn = "execute_select" -> <<"gc_103", "sel_167">>
      [] fn = "execute_write" -> <<"gc_103", "wr_212">>
      [] fn = "fix_database_issues" -> <<"gc_103", "ic_150", "fx_354">>
      [] fn = "setup_database" -> <<"gc_103", "ic_150", "sd_437">>

\* ------------------------------------------------------- Database.__init__

\* A constructor that connects at once, against a server that refuses.
EagerDatabase ==
    [pool |-> None, _initialized |-> FALSE, _connection_error |-> TRUE,
     _error_count |-> 1, attempted |-> TRUE]

\* The fields __init__ sets (lines 45-49): no pool, nothing attempted.
NewDatabase ==
    [pool |-> None, _initialized |-> FALSE, _connection_error |-> FALSE,
     _error_count |-> 0, attempted |-> FALSE]

Init ==
    /\ pool = NewDatabase.pool
    /\ _initialized = NewDatabase._initialized
    /\ _connection_error = NewDatabase._connection_error
    /\ _error_count = NewDatabase._error_count
    /\ attempted = NewDatabase.attempted
    /\ tables = OpenTables
    /\ web = NoRequest
    /\ poolFree = 0
    /\ poolsBuilt = IF NewDatabase.pool = None THEN 0 ELSE 1
    /\ started = FALSE
    /\ dbState \in {"up", "down", "flaky"}
    /\ th = [t \in Threads |-> IdleThread]

\* ------------------------------------------------------ Database._init_pool

\* An _init_pool() that gives up once a construction has failed.
init_pool_56_once(t) ==
    /\ pc(t) = "ip_56"
    /\ Upd(t, IF pool # None THEN RetR(th[t], BoolV(TRUE))
               ELSE IF _connection_error THEN RetR(th[t], BoolV(FALSE))
               ELSE GotoR(th[t], "ip_79"))
    /\ UNCHANGED <<shared, started, dbState, web>>

\* line 56: if self.pool: return True
init_pool_56(t) ==
    /\ pc(t) = "ip_56"
    /\ Upd(t, IF pool # None THEN RetR(th[t], BoolV(TRUE))
                             ELSE GotoR(th[t], "ip_79"))
    /\ UNCHANGED <<shared, started, dbState, web>>

\* line 79: self.pool = MySQLConnectionPool(**pool_config); on an exception
\* line 88: self._connection_error = True
init_pool_79(t) ==
    /\ pc(t) = "ip_79"
    /\ \E o \in NetOutcomes :
        IF o = Ok
        THEN /\ poolsBuilt < MaxPools
             /\ pool' = poolsBuilt + 1
             /\ poolsBuilt' = poolsBuilt + 1
             /\ poolFree' = pool_size
             /\ UNCHANGED _connection_error
             /\ Upd(t, GotoR(th[t], "ip_80"))
        ELSE /\ _connection_error' = TRUE
             /\ UNCHANGED <<pool, poolsBuilt, poolFree>>
             /\ Upd(t, GotoR(th[t], "ip_89"))
    /\ attempted' = TRUE
    /\ UNCHANGED <<_initialized, _error_count, tables, started, dbState, web>>

\* An _init_pool() that forgets to set the initialized flag.
init_pool_80_unset(t) ==
    /\ pc(t) = "ip_80"
    /\ Upd(t, GotoR(th[t], "ip_81"))
    /\ UNCHANGED <<shared, started, dbState, web>>

\* line 80: self._initialized = True
init_pool_80(t) ==
    /\ pc(t) = "ip_80"
    /\ _initialized' = TRUE
    /\ Upd(t, GotoR(th[t], "ip_81"))
    /\ UNCHANGED <<pool, _connection_error, _error_count, poolFree, poolsBuilt,
                   attempted, tables, started, dbState, web>>

\* An _init_pool() that leaves _connection_error as it finds it.
init_pool_81_keep(t) ==
    /\ pc(t) = "ip_81"
    /\ Upd(t, GotoR(th[t], "ip_82"))
    /\ UNCHANGED <<shared, started, dbState, web>>

\* line 81: self._connection_error = False
init_pool_81(t) ==
    /\ pc(t) = "ip_81"
    /\ _connection_error' = FALSE
    /\ Upd(t, GotoR(th[t], "ip_82"))
    /\ UNCHANGED <<pool, _initialized, _error_count, poolFree, poolsBuilt,
                   attempted, tables, started, dbState, web>>

\* lines 82-85: self._error_count = 0; return True
init_pool_82(t) ==
    /\ pc(t) = "ip_82"
    /\ _error_count' = 0
    /\ Upd(t, RetR(th[t], BoolV(TRUE)))
    /\ UNCHANGED <<pool, _initialized, _connection_error, poolFree, poolsBuilt,
                   attempted, tables, started, dbState, web>>

\* line 89: self._error_count += 1
init_pool_89(t) ==
    /\ pc(t) = "ip_89"
    /\ _error_count < MaxErrCount
    /\ _error_count' = _error_count + 1
    /\ Upd(t, GotoR(th[t], "ip_96"))
    /\ UNCHANGED <<pool, _initialized, _connection_error, poolFree, poolsBuilt,
                   attempted, tables, started, dbState, web>>

\* lines 96-97: self.pool = None; return False
init_pool_96(t) ==
    /\ pc(t) = "ip_96"
    /\ pool' = None
    /\ poolFree' = 0
    /\ Upd(t, RetR(th[t], BoolV(FALSE)))
    /\ UNCHANGED <<_initialized, _connection_error, _error_count, poolsBuilt,
                   attempted, tables, started, dbState, web>>

\* -------------------------------------------------- Database.get_connection

\* lines 129-144: except Exception as e: self._error_count += 1, then
\* _init_pool() when str(e) holds one of the two messages; return None.
GcExcept(t, r, e) ==
    /\ _error_count < MaxErrCount
    /\ _error_count' = _error_count + 1
    /\ Upd(t, IF IsTransient(e) THEN CallR(r, <<"ip_56", "gc_139">>)
                                ELSE RetR(r, NoneV))

\* self.pool.get_connection(): AttributeError when self.pool is None by now,
\* PoolError when the queue is empty, else what the server allows: a
\* connected connection, one that is not connected, or the driver's error.
Checkouts ==
    IF pool = None
    THEN {[r |-> "raise", live |-> FALSE, e |-> Exc("Other", "plain")]}
    ELSE IF poolFree = 0
    THEN {[r |-> "raise", live |-> FALSE, e |-> Exc("Error", "plain")]}
    ELSE {[r |-> "raise", live |-> FALSE, e |-> x] : x \in NetOutcomes \ {Ok}}
         \cup {[r |-> "conn", live |-> b, e |-> Ok] : b \in
                    {c \in BOOLEAN : IF c THEN Ok \in NetOutcomes
                                          ELSE dbState # "up"}}

\* line 103: if not self.pool and not self._initialized: -> _init_pool()
get_connection_103(t) ==
    /\ pc(t) = "gc_103"
    /\ Upd(t, IF pool = None /\ ~_initialized
               THEN CallR(th[t], <<"ip_56", "gc_104">>)
               ELSE GotoR(th[t], "gc_108"))
    /\ UNCHANGED <<shared, started, dbState, web>>

\* lines 104-105: if not self._init_pool(): return None
get_connection_104(t) ==
    /\ pc(t) = "gc_104"
    /\ Upd(t, IF ~Truthy(th[t].ret) THEN RetR(th[t], NoneV)
                                    ELSE GotoR(th[t], "gc_108"))
    /\ UNCHANGED <<shared, started, dbState, web>>

\* Whether the counter gate of line 108 turns the request away.
Gated == _connection_error /\ _error_count > _max_retries

\* lines 108-109: if self._connection_error and
\*                   self._error_count > self._max_retries: return None
get_connection_108(t) ==
    /\ pc(t) = "gc_108"
    /\ Upd(t, IF Gated THEN RetR(th[t], NoneV) ELSE GotoR(th[t], "gc_112"))
    /\ UNCHANGED <<shared, started, dbState, web>>

\* line 112: if self.pool:
get_connection_112(t) ==
    /\ pc(t) = "gc_112"
    /\ Upd(t, GotoR(th[t], IF pool # None THEN "gc_113" ELSE "gc_122"))
    /\ UNCHANGED <<shared, started, dbState, web>>

\* lines 113-119: conn = self.pool.get_connection(); a connected one is
\* returned, another is closed and None returned.  The pooled connection's
\* close() puts it back in the queue even when it raises.
get_connection_113(t) ==
    /\ pc(t) = "gc_113"
    /\ \E c \in Checkouts, o \in LocalOutcomes :
        IF c.r = "raise"
        THEN /\ o = Ok
             /\ GcExcept(t, th[t], c.e)
             /\ UNCHANGED poolFree
        ELSE IF c.live
        THEN /\ o = Ok
             /\ poolFree' = poolFree - 1
             /\ Upd(t, RetR([th[t] EXCEPT !.conn = pool, !.live = TRUE],
                            ConnV(pool)))
             /\ UNCHANGED _error_count
        ELSE IF o = Ok
        THEN /\ Upd(t, RetR(th[t], NoneV))
             /\ UNCHANGED <<poolFree, _error_count>>
        ELSE /\ GcExcept(t, th[t], o)
             /\ UNCHANGED poolFree
    /\ UNCHANGED <<pool, _initialized, _connection_error, poolsBuilt,
                   attempted, tables, started, dbState, web>>

\* lines 122-123: if self._error_count <= self._max_retries: _init_pool()
\* line 127: return None
get_connection_122(t) ==
    /\ pc(t) = "gc_122"
    /\ Upd(t, IF _error_count <= _max_retries
               THEN CallR(th[t], <<"ip_56", "gc_124">>)
               ELSE RetR(th[t], NoneV))
    /\ UNCHANGED <<shared, started, dbState, web>>

\* line 124: if self.pool:     line 127: return None
get_connection_124(t) ==
    /\ pc(t) = "gc_124"
    /\ Upd(t, IF pool # None THEN GotoR(th[t], "gc_125")
                             ELSE RetR(th[t], NoneV))
    /\ UNCHANGED <<shared, started, dbState, web>>

\* line 125: return self.pool.get_connection()
get_connection_125(t) ==
    /\ pc(t) = "gc_125"
    /\ \E c \in Checkouts :
        IF c.r = "raise"
        THEN /\ GcExcept(t, th[t], c.e)
             /\ UNCHANGED poolFree
        ELSE /\ poolFree' = poolFree - 1
             /\ Upd(t, RetR([th[t] EXCEPT !.conn = pool, !.live = c.live],
                            ConnV(pool)))
             /\ UNCHANGED _error_count
    /\ UNCHANGED <<pool, _initialized, _connection_error, poolsBuilt,
                   attempted, tables, started, dbState, web>>

\* line 144: return None, once the handler's _init_pool() is back
get_connection_139(t) ==
    /\ pc(t) = "gc_139"
    /\ Upd(t, RetR(th[t], NoneV))
    /\ UNCHANGED <<shared, started, dbState, web>>

\* ---------------------------------------------------- Database.is_connected

\* lines 151-155: cursor(), execute("SELECT 1"), fetchone(), cursor.close(),
\* conn.close()
IsConnectedCalls ==
    <<"cursor", "execute", "fetchone", "cursor_close", "conn_close">>

\* An is_connected() that answers True as soon as the probe's fetchone() is
\* back, whatever the two close() calls do.
IsConnectedBodyProbeOnly(p) ==
    [ret |-> p.at \in {0, 4, 5},
     released |-> p.at = 0 \/ p.at = 5]

\* lines 151-159, once get_connection() gave a connection: return True after
\* the five calls; the bare except returns False from wherever the run
\* stopped, and conn.close() has run only if the run got that far.
IsConnectedBody(p) ==
    [ret |-> p.at = 0,
     released |-> p.at = 0 \/ p.at = 5]

\* A connection given back goes to the queue of the pool it came from.
Release(r, released) ==
    IF released /\ r.conn # None /\ r.conn = pool THEN poolFree + 1 ELSE poolFree

\* The frame's conn and cursor are gone when it returns; a connection that
\* was not given back stays checked out for good.
DropConn(r, released) ==
    [r EXCEPT !.conn = None, !.live = FALSE, !.cur = FALSE, !.pend = NoneV,
              !.rb = "none",
              !.leaked = @ \/ (r.conn # None /\ ~released)]

\* lines 149-159
is_connected_150(t) ==
    /\ pc(t) = "ic_150"
    /\ IF ~Truthy(th[t].ret)
       THEN /\ Upd(t, RetR([th[t] EXCEPT !.run = "none"], BoolV(FALSE)))
            /\ UNCHANGED poolFree
       ELSE \E p \in Plans(IsConnectedCalls, th[t].live) :
              LET b == IsConnectedBody(p)
                  r == [th[t] EXCEPT !.run = RunOf(IsConnectedCalls, p)]
              IN /\ poolFree' = Release(th[t], b.released)
                 /\ Upd(t, RetR(DropConn(r, b.released), BoolV(b.ret)))
    /\ UNCHANGED <<pool, _initialized, _connection_error, _error_count,
                   poolsBuilt, attempted, tables, started, dbState, web>>

\* -------------------------------------------------- Database.execute_select

\* A finally block without the inner try: what a close() raises gets out.
FinallyCloseBare(cur, oc, ok) ==
    [released |-> ~(cur /\ oc # Ok),
     escapes |-> IF cur /\ oc # Ok THEN oc ELSE ok]

\* lines 196-204 and 255-263: finally: try: if cursor: cursor.close();
\* if conn: conn.close(); except: pass.  oc and ok are what the two close()
\* calls do: a cursor.close() that raises skips conn.close(), and nothing
\* gets out of the inner try.
FinallyClose(cur, oc, ok) ==
    [released |-> ~(cur /\ oc # Ok),
     escapes |-> NoExc]

\* lines 171-173: cursor(dictionary=True), execute, fetchall
SelectCalls == <<"cursor", "execute", "fetchall">>

\* An execute_select() that hands back None for an empty result.
SelectBodyEmptyIsNone(p, n) ==
    [cur |-> p.at # 1,
     pend |-> IF p.at = 0 /\ n > 0 THEN RowsV(n) ELSE NoneV,
     reinit |-> p.at # 0 /\ IsError(p.e) /\ IsTransient(p.e)]

\* lines 171-194 once a connection is there: the rows when the three calls
\* went through; except Error: _init_pool() on the two messages; except
\* Exception; every fault makes the result None.  n: the rows fetched.
SelectBody(p, n) ==
    [cur |-> p.at # 1,
     pend |-> IF p.at = 0 THEN RowsV(n) ELSE NoneV,
     reinit |-> p.at # 0 /\ IsError(p.e) /\ IsTransient(p.e)]

\* lines 166-194
execute_select_167(t) ==
    /\ pc(t) = "sel_167"
    /\ IF ~Truthy(th[t].ret)
       THEN Upd(t, RetR([th[t] EXCEPT !.run = "none", !.rows = 0], NoneV))
       ELSE \E p \in StmtPlans(SelectCalls, th[t].live,
                                Refused(FALSE, th[t].q, th[t].key)),
               n \in RowsFound(th[t].q, th[t].key) \cup {0} :
              LET b == SelectBody(p, n)
                  r == [th[t] EXCEPT !.cur = b.cur, !.pend = b.pend,
                                     !.run = RunOf(SelectCalls, p), !.rows = n]
              IN /\ (p.at # 0 => n = 0)
                 /\ (p.at = 0 => n \in RowsFound(th[t].q, th[t].key))
                 /\ Upd(t, IF b.reinit
                            THEN CallR(r, Frames("_init_pool") \o <<"sel_196">>)
                            ELSE GotoR(r, "sel_196"))
    /\ UNCHANGED <<shared, started, dbState, web>>

\* lines 196-204, then the pending return
execute_select_196(t) ==
    /\ pc(t) = "sel_196"
    /\ \E oc \in LocalOutcomes, ok \in LocalOutcomes :
         LET f == FinallyClose(th[t].cur, oc, ok)
             r == DropConn(th[t], f.released)
         IN /\ (~th[t].cur => oc = Ok)
            /\ ((th[t].cur /\ oc # Ok) => ok = Ok)
            /\ poolFree' = Release(th[t], f.released)
            /\ Upd(t, IF f.escapes = NoExc
                       THEN RetR(r, th[t].pend)
                       ELSE [RetR(r, NoneV) EXCEPT !.exc = f.escapes])
    /\ UNCHANGED <<pool, _initialized, _connection_error, _error_count,
                   poolsBuilt, attempted, tables, started, dbState, web>>

\* --------------------------------------------------- Database.execute_write

\* lines 216-218: cursor(), execute, commit
WriteCalls == <<"cursor", "execute", "commit">>

\* An execute_write() that hands back None when no row was affected.
WriteBodyZeroIsNone(p, n) ==
    [cur |-> p.at # 1,
     pend |-> IF p.at = 0 /\ n > 0 THEN IntV(n) ELSE NoneV,
     rollback |-> p.at # 0,
     reinit |-> p.at # 0 /\ IsError(p.e) /\ IsTransient(p.e)]

\* An execute_write() whose handlers do not roll back.
WriteBodyNoRollback(p, n) ==
    [cur |-> p.at # 1,
     pend |-> IF p.at = 0 THEN IntV(n) ELSE NoneV,
     rollback |-> FALSE,
     reinit |-> p.at # 0 /\ IsError(p.e) /\ IsTransient(p.e)]

\* lines 227-231 and 247-251: if conn: try: conn.rollback() except: pass.
\* What became of the rollback: not tried, done, or failed and swallowed.
Rollback(tried, o) ==
    IF ~tried THEN "none" ELSE IF o = Ok THEN "ok" ELSE "failed"

\* lines 216-253 once a connection is there: cursor.rowcount when the three
\* calls went through; both handlers try conn.rollback() and swallow its
\* failure; except Error calls _init_pool() on the two messages; every fault
\* makes the result None.  n: the rows the statement affected.
WriteBody(p, n) ==
    [cur |-> p.at # 1,
     pend |-> IF p.at = 0 THEN IntV(n) ELSE NoneV,
     rollback |-> p.at # 0,
     reinit |-> p.at # 0 /\ IsError(p.e) /\ IsTransient(p.e)]

\* lines 211-253
execute_write_212(t) ==
    /\ pc(t) = "wr_212"
    /\ IF ~Truthy(th[t].ret)
       THEN /\ Upd(t, RetR([th[t] EXCEPT !.run = "none", !.rows = 0], NoneV))
            /\ UNCHANGED tables
       ELSE \E p \in StmtPlans(WriteCalls, th[t].live,
                                Refused(TRUE, th[t].q, th[t].key)),
               n \in RowsAffected(th[t].q) \cup {0},
               o \in CallOutcomes("rollback", th[t].live) :
              LET b == WriteBody(p, n)
                  r == [th[t] EXCEPT !.cur = b.cur, !.pend = b.pend,
                                     !.run = RunOf(WriteCalls, p), !.rows = n,
                                     !.rb = Rollback(b.rollback, o)]
              IN /\ (p.at # 0 => n = 0)
                 /\ (p.at = 0 => n \in RowsAffected(th[t].q))
                 /\ (~b.rollback => o = Ok)
                 /\ tables' = IF ~tables.open /\ Applied(p)
                               THEN Written(th[t].q, th[t].key) ELSE tables
                 /\ Upd(t, IF b.reinit
                            THEN CallR(r, Frames("_init_pool") \o <<"wr_255">>)
                            ELSE GotoR(r, "wr_255"))
    /\ UNCHANGED <<pool, _initialized, _connection_error, _error_count,
                   poolFree, poolsBuilt, attempted, started, dbState, web>>

\* lines 255-263, then the pending return
execute_write_255(t) ==
    /\ pc(t) = "wr_255"
    /\ \E oc \in LocalOutcomes, ok \in LocalOutcomes :
         LET f == FinallyClose(th[t].cur, oc, ok)
             r == DropConn(th[t], f.released)
         IN /\ (~th[t].cur => oc = Ok)
            /\ ((th[t].cur /\ oc # Ok) => ok = Ok)
            /\ poolFree' = Release(th[t], f.released)
            /\ Upd(t, IF f.escapes = NoExc
                       THEN RetR(r, th[t].pend)
                       ELSE [RetR(r, NoneV) EXCEPT !.exc = f.escapes])
    /\ UNCHANGED <<pool, _initialized, _connection_error, _error_count,
                   poolsBuilt, attempted, tables, started, dbState, web>>

\* --------------------------------------------------- Database.create_tables

\* A caller's step that issues one statement through execute_select or
\* execute_write and goes on at `cont` when it returns.
Issue(r, fn, cont) ==
    CallR([r EXCEPT !.stmts = TRUE], Frames(fn) \o <<cont>>)

\* The statement a caller is about to issue: what it touches, and the key.
Stmt(r, q, key) == [r EXCEPT !.q = q, !.key = key]

\* An exception a callee let out reaches a `try: ... except Exception:
\* return False` around the call: the handler's return.
Caught(r) == RetR([r EXCEPT !.exc = NoExc], BoolV(FALSE))

\* lines 332-333 and 345: for i, query in enumerate(queries):
\*     result = self.execute_write(query)   ...   return success_count > 0
create_tables_332(t) ==
    /\ pc(t) = "ct_332"
    /\ Upd(t, IF th[t].i < NumTables
               THEN Issue(Stmt(th[t], "create", 0), "execute_write", "ct_334")
               ELSE RetR([th[t] EXCEPT !.i = 0, !.succ = 0],
                         BoolV(th[t].succ > 0)))
    /\ UNCHANGED <<shared, started, dbState, web>>

\* A create_tables() that gives up at the first statement that fails.
create_tables_334_abort(t) ==
    /\ pc(t) = "ct_334"
    /\ Upd(t, IF th[t].exc # NoExc \/ th[t].ret = NoneV
               THEN Caught([th[t] EXCEPT !.i = 0, !.succ = 0])
               ELSE GotoR([th[t] EXCEPT !.i = @ + 1, !.succ = @ + 1],
                          "ct_332"))
    /\ UNCHANGED <<shared, started, dbState, web>>

\* lines 334-338: if result is not None: success_count += 1
\*                else: fail_count += 1
\* lines 346-348: except Exception: return False
create_tables_334(t) ==
    /\ pc(t) = "ct_334"
    /\ Upd(t, IF th[t].exc # NoExc
               THEN Caught([th[t] EXCEPT !.i = 0, !.succ = 0])
               ELSE GotoR([th[t] EXCEPT
                              !.i = @ + 1,
                              !.succ = IF th[t].ret # NoneV THEN @ + 1 ELSE @,
                              !.fail = @ \/ th[t].ret = NoneV],
                          "ct_332"))
    /\ UNCHANGED <<shared, started, dbState, web>>

\* --------------------------------------------- Database.fix_database_issues

\* lines 354-356: if not self.is_connected(): return False
\* (the call is outside the try: what it raised would go on to the caller)
fix_database_issues_354(t) ==
    /\ pc(t) = "fx_354"
    /\ Upd(t, IF th[t].exc # NoExc THEN RetR(th[t], NoneV)
               ELSE IF ~Truthy(th[t].ret) THEN RetR(th[t], BoolV(FALSE))
               ELSE GotoR([th[t] EXCEPT !.i = 0], "fx_367"))
    /\ UNCHANGED <<shared, started, dbState, web>>

\* lines 361-367: for table in tables_to_check:
\*     tables = self.execute_select(query, (self.database, table))
\* lines 373-374: admin_user = self.execute_select(query)
fix_database_issues_367(t) ==
    /\ pc(t) = "fx_367"
    /\ Upd(t, IF th[t].i < NumTablesToCheck
               THEN Issue(Stmt(th[t], "table", 0), "execute_select", "fx_369")
               ELSE Issue(Stmt([th[t] EXCEPT !.i = 0], "admin", 0),
                          "execute_select", "fx_376"))
    /\ UNCHANGED <<shared, started, dbState, web>>

\* lines 369-370: if not tables: print(...), nothing else
\* lines 426-428: except Exception: return False
fix_database_issues_369(t) ==
    /\ pc(t) = "fx_369"
    /\ Upd(t, IF th[t].exc # NoExc
               THEN Caught([th[t] EXCEPT !.i = 0])
               ELSE GotoR([th[t] EXCEPT !.i = @ + 1], "fx_367"))
    /\ UNCHANGED <<shared, started, dbState, web>>

\* lines 376-394: if not admin_user: result = self.execute_write(INSERT ...)
fix_database_issues_376(t) ==
    /\ pc(t) = "fx_376"
    /\ Upd(t, IF th[t].exc # NoExc THEN Caught(th[t])
               ELSE IF ~Truthy(th[t].ret)
               THEN Issue(Stmt(th[t], "admin", 0), "execute_write", "fx_396")
               ELSE GotoR(th[t], "fx_413"))
    /\ UNCHANGED <<shared, started, dbState, web>>

\* lines 396-399: if result: print(...) else: print(...)
fix_database_issues_396(t) ==
    /\ pc(t) = "fx_396"
    /\ Upd(t, IF th[t].exc # NoExc THEN Caught(th[t])
                                   ELSE GotoR(th[t], "fx_413"))
    /\ UNCHANGED <<shared, started, dbState, web>>

\* lines 413-415 and 424: for key, value in basic_settings:
\*     setting_exists = self.execute_select(query, (key,))  ...  return True
fix_database_issues_413(t) ==
    /\ pc(t) = "fx_413"
    /\ Upd(t, IF th[t].i < NumSettings
               THEN Issue(Stmt(th[t], "setting", th[t].i + 1),
                          "execute_select", "fx_417")
               ELSE RetR([th[t] EXCEPT !.i = 0], BoolV(TRUE)))
    /\ UNCHANGED <<shared, started, dbState, web>>

\* lines 417-419: if not setting_exists: result = self.execute_write(INSERT)
fix_database_issues_417(t) ==
    /\ pc(t) = "fx_417"
    /\ Upd(t, IF th[t].exc # NoExc THEN Caught([th[t] EXCEPT !.i = 0])
               ELSE IF ~Truthy(th[t].ret)
               THEN Issue(Stmt(th[t], "setting", th[t].i + 1),
                          "execute_write", "fx_420")
               ELSE GotoR([th[t] EXCEPT !.i = @ + 1], "fx_413"))
    /\ UNCHANGED <<shared, started, dbState, web>>

\* lines 420-421: if result: print(...)
fix_database_issues_420(t) ==
    /\ pc(t) = "fx_420"
    /\ Upd(t, IF th[t].exc # NoExc THEN Caught([th[t] EXCEPT !.i = 0])
               ELSE GotoR([th[t] EXCEPT !.i = @ + 1], "fx_413"))
    /\ UNCHANGED <<shared, started, dbState, web>>

\* -------------------------------------------------- Database.setup_database

\* A setup_database() that goes on to create_tables() whatever
\* is_connected() answered.
setup_database_unprobed(t) ==
    /\ pc(t) = "sd_437"
    /\ Upd(t, IF th[t].exc # NoExc THEN Caught(th[t])
               ELSE CallR([th[t] EXCEPT !.i = 0, !.succ = 0],
                          <<"ct_332", "sd_449">>))
    /\ UNCHANGED <<shared, started, dbState, web>>

\* lines 437-445: if not self.is_connected(): return False
\*                self.create_tables()
\* lines 454-457: except Exception: return False
setup_database_437(t) ==
    /\ pc(t) = "sd_437"
    /\ Upd(t, IF th[t].exc # NoExc THEN Caught(th[t])
               ELSE IF ~Truthy(th[t].ret)
               THEN RetR([th[t] EXCEPT !.probe = "failed"], BoolV(FALSE))
               ELSE CallR([th[t] EXCEPT !.i = 0, !.succ = 0, !.probe = "passed"],
                          <<"ct_332", "sd_449">>))
    /\ UNCHANGED <<shared, started, dbState, web>>

\* A setup_database() that gives up when create_tables() returned False.
setup_database_449_strict(t) ==
    /\ pc(t) = "sd_449"
    /\ Upd(t, IF th[t].exc # NoExc \/ ~Truthy(th[t].ret) THEN Caught(th[t])
               ELSE CallR(th[t], Frames("fix_database_issues") \o <<"sd_452">>))
    /\ UNCHANGED <<shared, started, dbState, web>>

\* line 449: self.fix_database_issues()
setup_database_449(t) ==
    /\ pc(t) = "sd_449"
    /\ Upd(t, IF th[t].exc # NoExc THEN Caught(th[t])
               ELSE CallR(th[t], Frames("fix_database_issues") \o <<"sd_452">>))
    /\ UNCHANGED <<shared, started, dbState, web>>

\* line 452: return True
setup_database_452(t) ==
    /\ pc(t) = "sd_452"
    /\ Upd(t, IF th[t].exc # NoExc THEN Caught(th[t])
                                   ELSE RetR(th[t], BoolV(TRUE)))
    /\ UNCHANGED <<shared, started, dbState, web>>

\* ------------------------------------------------------------ the requests

\* The methods of db the request handlers and the entry point call.
Ops == {"is_connected", "execute_select", "execute_write", "setup_database"}

\* A caller invokes a method of db: the thread's frames start afresh.  s3,
\* sOver, fresh and below remember how the object stood when the call was
\* made: fresh is the object as constructed with nothing attempted yet, below
\* is no pool and the failure counter under the ceiling.
Begin(t, o) ==
    /\ Quiet(t)
    /\ Upd(t, [IdleThread EXCEPT
                 !.op = o,
                 !.stk = Frames(o) \o <<"done">>,
                 !.s3 = (o # "setup_database" /\ pool = None
                            /\ _error_count >= _max_retries),
                 !.sOver = (o = "setup_database"
                            /\ _error_count > _max_retries),
                 !.fresh = (pool = None /\ ~_initialized /\ ~attempted
                            /\ ~_connection_error /\ _error_count = 0),
                 !.below = (pool = None /\ _error_count < _max_retries)])
    /\ started' = TRUE
    /\ UNCHANGED <<shared, dbState, web>>

\* The server goes up or down, or starts to flicker, between requests.
ServerChange(s) ==
    /\ \A t \in Threads : Quiet(t)
    /\ s # dbState
    /\ dbState' = s
    /\ th' = [t \in Threads |-> IdleThread]
    /\ UNCHANGED <<shared, started, web>>

\* The steps a thread takes when every driver call succeeds.
StepHealthy(t) ==
    \/ init_pool_56(t) \/ init_pool_79(t) \/ init_pool_80(t)
    \/ init_pool_81(t) \/ init_pool_82(t)
    \/ get_connection_103(t) \/ get_connection_104(t)
    \/ get_connection_108(t) \/ get_connection_112(t)
    \/ get_connection_113(t)
    \/ is_connected_150(t)
    \/ execute_select_167(t) \/ execute_select_196(t)
    \/ execute_write_212(t) \/ execute_write_255(t)
    \/ create_tables_332(t) \/ create_tables_334(t)
    \/ fix_database_issues_354(t) \/ fix_database_issues_367(t)
    \/ fix_database_issues_369(t) \/ fix_database_issues_376(t)
    \/ fix_database_issues_396(t) \/ fix_database_issues_413(t)
    \/ fix_database_issues_417(t) \/ fix_database_issues_420(t)
    \/ setup_database_437(t) \/ setup_database_449(t)
    \/ setup_database_452(t)

\* The steps a lone thread can take: those and the failure paths of
\* _init_pool and get_connection.
StepAlone(t) ==
    \/ StepHealthy(t)
    \/ init_pool_89(t) \/ init_pool_96(t)
    \/ get_connection_139(t)

\* Lines 120-127 of get_connection run only when the pool is gone although
\* _initialized is set, which takes two threads inside _init_pool.
StepRaced(t) ==
    \/ get_connection_122(t) \/ get_connection_124(t)
    \/ get_connection_125(t)

\* One request at a time: the entry point before app.run, or a server whose
\* requests do not overlap.
Next ==
    \/ \E o \in Ops : Begin(1, o)
    \/ StepAlone(1)
    \/ \E s \in {"up", "down", "flaky"} : ServerChange(s)

Spec == Init /\ [][Next]_vars

\* Two request threads whose is_connected() calls overlap while the server
\* flickers; then the server comes up for good and the repair endpoint's
\* setup_database() runs with no other request in flight.
InitThreads == Init /\ dbState = "flaky"

NextThreads ==
    \/ \E t \in Threads : dbState = "flaky" /\ Begin(t, "is_connected")
    \/ ServerChange("up")
    \/ /\ dbState = "up"
       /\ \A u \in Threads : Quiet(u)
       /\ Begin(1, "setup_database")
    \/ \E t \in Threads : StepAlone(t) \/ StepRaced(t)

SpecThreads == InitThreads /\ [][NextThreads]_vars

\* The bootstrap against a healthy server that starts without the tables:
\* setup_database() from the entry point (line 1343) and from the repair
\* endpoint (line 1294), run after one another or overlapping on two
\* threads; fix_database_issues() alone once the tables are there.
Bootstraps == {"setup_database", "fix_database_issues"}

InitBootstrap ==
    /\ pool = NewDatabase.pool
    /\ _initialized = NewDatabase._initialized
    /\ _connection_error = NewDatabase._connection_error
    /\ _error_count = NewDatabase._error_count
    /\ attempted = NewDatabase.attempted
    /\ tables = EmptyServer
    /\ web = NoRequest
    /\ poolFree = 0
    /\ poolsBuilt = 0
    /\ started = FALSE
    /\ dbState = "up"
    /\ th = [t \in Threads |-> IdleThread]

NextBootstrap ==
    \/ \E t \in Threads : Begin(t, "setup_database")
    \/ \E t \in Threads : tables.schema /\ Begin(t, "fix_database_issues")
    \/ \E t \in Threads : StepHealthy(t)

SpecBootstrap == InitBootstrap /\ [][NextBootstrap]_vars

\* The repair pass, one call at a time, on a server that flickers and whose
\* tables are there: every row is there, or the admin account and the last of
\* the basic settings are missing.
RepairStarts ==
    {[EmptyServer EXCEPT !.schema = TRUE, !.admin = a,
                         !.settings = [k \in SettingKeys |->
                                          IF k = NumSettings THEN a ELSE 1]] :
        a \in {0, 1}}

\* The steps of a repair pass: every method but create_tables and
\* setup_database.
StepRepair(t) ==
    \/ init_pool_56(t) \/ init_pool_79(t) \/ init_pool_80(t)
    \/ init_pool_81(t) \/ init_pool_82(t)
    \/ init_pool_89(t) \/ init_pool_96(t)
    \/ get_connection_103(t) \/ get_connection_104(t)
    \/ get_connection_108(t) \/ get_connection_112(t)
    \/ get_connection_113(t) \/ get_connection_139(t)
    \/ is_connected_150(t)
    \/ execute_select_167(t) \/ execute_select_196(t)
    \/ execute_write_212(t) \/ execute_write_255(t)
    \/ fix_database_issues_354(t) \/ fix_database_issues_367(t)
    \/ fix_database_issues_369(t) \/ fix_database_issues_376(t)
    \/ fix_database_issues_396(t) \/ fix_database_issues_413(t)
    \/ fix_database_issues_417(t) \/ fix_database_issues_420(t)

InitRepair ==
    /\ pool = NewDatabase.pool
    /\ _initialized = NewDatabase._initialized
    /\ _connection_error = NewDatabase._connection_error
    /\ _error_count = NewDatabase._error_count
    /\ attempted = NewDatabase.attempted
    /\ tables \in RepairStarts
    /\ web = NoRequest
    /\ poolFree = 0
    /\ poolsBuilt = 0
    /\ started = FALSE
    /\ dbState = "flaky"
    /\ th = [t \in Threads |-> IdleThread]

NextRepair ==
    \/ Begin(1, "fix_database_issues")
    \/ StepRepair(1)

SpecRepair == InitRepair /\ [][NextRepair]_vars

\* --------------------------------------------------------- the API handlers

\* str.strip() on a text
RECURSIVE lstrip(_), rstrip(_)
lstrip(s) == IF s # <<>> /\ Head(s) = " " THEN lstrip(Tail(s)) ELSE s

rstrip(s) == IF s # <<>> /\ s[Len(s)] = " " THEN rstrip(SubSeq(s, 1, Len(s) - 1)) ELSE s

strip(s) == rstrip(lstrip(s))

\* create_response(data, message, status, success) / jsonify(...), status,
\* with the results the handler got from execute_select and execute_write.
create_response(status, success, sel, wr) ==
    [status |-> status, success |-> success, sel |-> sel, wr |-> wr]

\* @token_required: without a valid token the handler is not entered.
token_required(auth, r) ==
    IF ~auth THEN create_response(401, FALSE, NotCalled, NotCalled) ELSE r

\* GET /api/projects
get_projects(s) ==
    IF s = NoneV
    THEN create_response(200, TRUE, s, NotCalled)
    ELSE create_response(200, TRUE, s, NotCalled)

\* GET /api/site-status: a missing row or no result reads as "not in
\* maintenance".
get_site_status(s) == create_response(200, TRUE, s, NotCalled)

\* POST /api/project-request: valid when name, email and description are
\* given.
create_project_request(valid, w) ==
    IF ~valid THEN create_response(400, FALSE, NotCalled, NotCalled)
    ELSE IF w = NoneV THEN create_response(503, FALSE, NotCalled, w)
    ELSE create_response(201, TRUE, NotCalled, w)

\* POST /api/admin/login: valid when username and password are given, pw
\* when the password matches the stored hash.
admin_login(valid, c, s, pw) ==
    IF ~valid THEN create_response(400, FALSE, NotCalled, NotCalled)
    ELSE IF ~c THEN create_response(503, FALSE, NotCalled, NotCalled)
    ELSE IF ~Truthy(s) THEN create_response(401, FALSE, s, NotCalled)
    ELSE IF ~pw THEN create_response(401, FALSE, s, NotCalled)
    ELSE create_response(200, TRUE, s, NotCalled)

\* GET /api/admin/projects
admin_get_projects(c, s) ==
    IF ~c THEN create_response(503, FALSE, NotCalled, NotCalled)
    ELSE IF s = NoneV THEN create_response(200, TRUE, s, NotCalled)
    ELSE create_response(200, TRUE, s, NotCalled)

\* POST /api/admin/projects: title and description as the form gives them.
admin_create_project(c, title, description, w) ==
    IF ~c THEN create_response(503, FALSE, NotCalled, NotCalled)
    ELSE IF strip(title) = <<>> \/ strip(description) = <<>>
    THEN create_response(400, FALSE, NotCalled, NotCalled)
    ELSE IF w = NoneV THEN create_response(500, FALSE, NotCalled, w)
    ELSE create_response(201, TRUE, NotCalled, w)

\* PUT /api/admin/projects/<id>: title and description as data.get() gives
\* them, others when another field of fields_mapping is given.
admin_update_project(c, s, title, description, others, w) ==
    IF ~c THEN create_response(503, FALSE, NotCalled, NotCalled)
    ELSE IF ~Truthy(s) THEN create_response(404, FALSE, s, NotCalled)
    ELSE IF title = Absent /\ description = Absent /\ ~others
    THEN create_response(400, FALSE, s, NotCalled)
    ELSE IF w = NoneV THEN create_response(500, FALSE, s, w)
    ELSE create_response(200, TRUE, s, w)

\* DELETE /api/admin/projects/<id>
admin_delete_project(c, s, w) ==
    IF ~c THEN create_response(503, FALSE, NotCalled, NotCalled)
    ELSE IF ~Truthy(s) THEN create_response(404, FALSE, s, NotCalled)
    ELSE IF w = NoneV THEN create_response(500, FALSE, s, w)
    ELSE create_response(200, TRUE, s, w)

\* GET /api/admin/project-requests
admin_get_project_requests(c, s) ==
    IF ~c THEN create_response(503, FALSE, NotCalled, NotCalled)
    ELSE IF s = NoneV THEN create_response(200, TRUE, s, NotCalled)
    ELSE create_response(200, TRUE, s, NotCalled)

\* GET /api/admin/project-requests/<id>
admin_get_project_request(c, s) ==
    IF ~c THEN create_response(503, FALSE, NotCalled, NotCalled)
    ELSE IF ~Truthy(s) THEN create_response(404, FALSE, s, NotCalled)
    ELSE create_response(200, TRUE, s, NotCalled)

\* PUT /api/admin/project-requests/<id>/status: valid when status is given.
admin_update_request_status(c, valid, w) ==
    IF ~c THEN create_response(503, FALSE, NotCalled, NotCalled)
    ELSE IF ~valid THEN create_response(400, FALSE, NotCalled, NotCalled)
    ELSE IF w = NoneV THEN create_response(500, FALSE, NotCalled, w)
    ELSE create_response(200, TRUE, NotCalled, w)

\* DELETE /api/admin/project-requests/<id>
admin_delete_project_request(c, w) ==
    IF ~c THEN create_response(503, FALSE, NotCalled, NotCalled)
    ELSE IF w = NoneV THEN create_response(500, FALSE, NotCalled, w)
    ELSE create_response(200, TRUE, NotCalled, w)

\* GET /api/admin/settings: defaults without a connection, {} without a
\* result.
admin_get_settings(c, s) ==
    IF ~c THEN create_response(200, TRUE, NotCalled, NotCalled)
    ELSE create_response(200, TRUE, s, NotCalled)

\* PUT /api/admin/settings: valid when the body is there; w is None when one
\* of the writes of the loop returned None, and nothing reads it.
admin_update_settings(c, valid, w) ==
    IF ~c THEN create_response(503, FALSE, NotCalled, NotCalled)
    ELSE IF ~valid THEN create_response(400, FALSE, NotCalled, NotCalled)
    ELSE create_response(200, TRUE, NotCalled, w)

\* POST /api/admin/fix-database: ok is what db.setup_database() returned.
fix_database(ok) ==
    IF ok THEN create_response(200, TRUE, NotCalled, NotCalled)
    ELSE create_response(500, FALSE, NotCalled, NotCalled)

\* What the maintenance_mode query of the page routes can come back with:
\* None, no row, or a row whose setting_value is NULL, '', 'enabled',
\* 'disabled' or something else.
MaintenanceResults ==
    {"None", "[]", "NULL", "''", "enabled", "disabled", "other"}

\* redirect('/maintenance') and send_from_directory('.', 'hawkstudio.html')
Redirect == 302

MainPage == 200

\* A main page handler that keeps visitors out when it cannot read the
\* setting.
main_index_closed(res, raised) ==
    IF raised THEN Redirect
    ELSE IF res \in {"None", "enabled"} THEN Redirect ELSE MainPage

\* GET /: raised when something in the try block raises.
main_index(res, raised) ==
    IF raised THEN MainPage
    ELSE LET maintenance_mode ==
                 IF res \in {"None", "[]"} THEN "disabled"
                 ELSE IF res \in {"NULL", "''"} THEN "disabled"
                 ELSE res
         IN IF maintenance_mode = "enabled" THEN Redirect ELSE MainPage

\* What execute_select and execute_write hand a handler: None, or the rows
\* found / affected.
ListResults == {NoneV} \cup {RowsV(n) : n \in 0..MaxRows}

WriteResults == {NoneV} \cup {IntV(n) : n \in 0..MaxRows}

\* SELECT id FROM projects WHERE id = %s
ById(id) == {NoneV, RowsV(IF tables.projects[id].live THEN 1 ELSE 0)}

\* What a form or a JSON body holds under a key.
Fields == Texts \cup {Absent}

\* The rows of projects after the INSERT, the UPDATE and the DELETE.
FreeIds == {i \in ProjectIds : ~tables.projects[i].live}

Inserted(title, description) ==
    [tables EXCEPT !.projects[CHOOSE i \in FreeIds : \A j \in FreeIds : i <= j] =
        Row(title, description)]

Updated(id, title, description) ==
    IF ~tables.projects[id].live THEN tables
    ELSE [tables EXCEPT !.projects[id] =
            Row(IF title = Absent THEN @.title ELSE title,
                IF description = Absent THEN @.description ELSE description)]

Deleted(id) == [tables EXCEPT !.projects[id] = NoRow]

\* A request served: the response and the results of db's methods behind it.
\* The connection is autocommit (line 72), so a write that returned None may
\* have been applied all the same.
Served(h, r) ==
    [h |-> h, status |-> r.status, success |-> r.success,
     sel |-> r.sel, wr |-> r.wr, res |-> "none"]

Stored(r, after, applied) ==
    IF r.wr # NotCalled /\ applied THEN after ELSE tables

Handle_get_projects ==
    \E s \in ListResults :
        /\ web' = Served("get_projects", get_projects(s))
        /\ UNCHANGED <<tables, core>>

Handle_get_site_status ==
    \E s \in ListResults :
        /\ web' = Served("get_site_status",
                        get_site_status(s))
        /\ UNCHANGED <<tables, core>>

Handle_create_project_request ==
    \E valid \in BOOLEAN, w \in WriteResults :
        /\ web' = Served("create_project_request",
                        create_project_request(valid, w))
        /\ UNCHANGED <<tables, core>>

Handle_admin_login ==
    \E valid \in BOOLEAN, c \in BOOLEAN, s \in ListResults, pw \in BOOLEAN :
        /\ web' = Served("admin_login",
                        admin_login(valid, c, s, pw))
        /\ UNCHANGED <<tables, core>>

Handle_admin_get_projects ==
    \E auth \in BOOLEAN, c \in BOOLEAN, s \in ListResults :
        /\ web' = Served("admin_get_projects",
                        token_required(auth, admin_get_projects(c, s)))
        /\ UNCHANGED <<tables, core>>

\* The inputs a handler reads only past a point are drawn only on the paths
\* that reach the point.
Handle_admin_create_project ==
    \E auth \in BOOLEAN, c \in BOOLEAN :
      \E title \in (IF auth /\ c THEN Texts ELSE {<<>>}),
         description \in (IF auth /\ c THEN Texts ELSE {<<>>}) :
        \E w \in (IF auth /\ c /\ strip(title) # <<>> /\ strip(description) # <<>>
                  THEN WriteResults ELSE {NoneV}),
           applied \in BOOLEAN :
            /\ w # NoneV => applied
            /\ applied => FreeIds # {}
            /\ LET r == token_required(auth,
                            admin_create_project(c, title, description, w))
               IN /\ r.wr = NotCalled => ~applied
                  /\ web' = Served("admin_create_project", r)
                  /\ tables' = Stored(r, Inserted(strip(title), strip(description)),
                                      applied)
            /\ UNCHANGED core

Handle_admin_update_project ==
    \E auth \in BOOLEAN, c \in BOOLEAN, id \in ProjectIds :
      \E s \in ById(id) :
        \E title \in (IF auth /\ c /\ Truthy(s) THEN Fields ELSE {Absent}),
           description \in (IF auth /\ c /\ Truthy(s) THEN Fields ELSE {Absent}),
           others \in (IF auth /\ c /\ Truthy(s) THEN BOOLEAN ELSE {FALSE}) :
          \E w \in (IF title # Absent \/ description # Absent \/ others
                    THEN WriteResults ELSE {NoneV}),
             applied \in BOOLEAN :
            /\ w # NoneV => applied
            /\ LET r == token_required(auth,
                            admin_update_project(c, s, title, description,
                                                 others, w))
               IN /\ r.wr = NotCalled => ~applied
                  /\ web' = Served("admin_update_project", r)
                  /\ tables' = Stored(r, Updated(id, title, description), applied)
            /\ UNCHANGED core

Handle_admin_delete_project ==
    \E auth \in BOOLEAN, c \in BOOLEAN, id \in ProjectIds, w \in WriteResults,
       applied \in BOOLEAN :
        \E s \in ById(id) :
            /\ w # NoneV => applied
            /\ LET r == token_required(auth, admin_delete_project(c, s, w))
               IN /\ web' = Served("admin_delete_project", r)
                  /\ tables' = Stored(r, Deleted(id), applied)
            /\ UNCHANGED core

Handle_admin_get_project_requests ==
    \E auth \in BOOLEAN, c \in BOOLEAN, s \in ListResults :
        /\ web' = Served("admin_get_project_requests",
                        token_required(auth, admin_get_project_requests(c, s)))
        /\ UNCHANGED <<tables, core>>

Handle_admin_get_project_request ==
    \E auth \in BOOLEAN, c \in BOOLEAN, s \in ListResults :
        /\ web' = Served("admin_get_project_request",
                        token_required(auth, admin_get_project_request(c, s)))
        /\ UNCHANGED <<tables, core>>

Handle_admin_update_request_status ==
    \E auth \in BOOLEAN, c \in BOOLEAN, valid \in BOOLEAN, w \in WriteResults :
        /\ web' = Served("admin_update_request_status",
                        token_required(auth, admin_update_request_status(c, valid, w)))
        /\ UNCHANGED <<tables, core>>

Handle_admin_delete_project_request ==
    \E auth \in BOOLEAN, c \in BOOLEAN, w \in WriteResults :
        /\ web' = Served("admin_delete_project_request",
                        token_required(auth, admin_delete_project_request(c, w)))
        /\ UNCHANGED <<tables, core>>

Handle_admin_get_settings ==
    \E auth \in BOOLEAN, c \in BOOLEAN, s \in ListResults :
        /\ web' = Served("admin_get_settings",
                        token_required(auth, admin_get_settings(c, s)))
        /\ UNCHANGED <<tables, core>>

Handle_admin_update_settings ==
    \E auth \in BOOLEAN, c \in BOOLEAN, valid \in BOOLEAN, w \in WriteResults :
        /\ web' = Served("admin_update_settings",
                        token_required(auth, admin_update_settings(c, valid, w)))
        /\ UNCHANGED <<tables, core>>

Handle_main_index ==
    \E res \in MaintenanceResults, raised \in BOOLEAN :
        /\ web' = [NoRequest EXCEPT !.h = "main_index",
                                    !.status = main_index(res, raised),
                                    !.res = IF raised THEN "raised" ELSE res]
        /\ UNCHANGED <<tables, core>>

Handle_fix_database ==
    \E ok \in BOOLEAN :
        /\ web' = Served("fix_database", fix_database(ok))
        /\ UNCHANGED <<tables, core>>

\* The API against a server whose tables are there and whose projects table
\* starts empty: requests are served one after another, each with whatever
\* db's methods hand it.
InitHandlers ==
    /\ pool = NewDatabase.pool
    /\ _initialized = NewDatabase._initialized
    /\ _connection_error = NewDatabase._connection_error
    /\ _error_count = NewDatabase._error_count
    /\ attempted = NewDatabase.attempted
    /\ tables = [EmptyServer EXCEPT !.schema = TRUE]
    /\ web = NoRequest
    /\ poolFree = 0
    /\ poolsBuilt = 0
    /\ started = FALSE
    /\ dbState = "flaky"
    /\ th = [t \in Threads |-> IdleThread]

NextHandlers ==
    \/ Handle_get_projects
    \/ Handle_get_site_status
    \/ Handle_create_project_request
    \/ Handle_admin_login
    \/ Handle_admin_get_projects
    \/ Handle_admin_create_project
    \/ Handle_admin_update_project
    \/ Handle_admin_delete_project
    \/ Handle_admin_get_project_requests
    \/ Handle_admin_get_project_request
    \/ Handle_admin_update_request_status
    \/ Handle_admin_delete_project_request
    \/ Handle_admin_get_settings
    \/ Handle_admin_update_settings
    \/ Handle_fix_database
    \/ Handle_main_index

SpecHandlers == InitHandlers /\ [][NextHandlers]_vars

\* ------------------------------------------------------------------ claims

Done(t) == pc(t) = "done"

\* The values each method may hand back.
ResultKinds(o) ==
    CASE o = "execute_select" -> {"None", "rows"}
      [] o = "execute_write" -> {"None", "int"}
      [] OTHER -> {"bool"}

C2_NoAttemptPastCeiling ==
    \A t \in Threads : th[t].s3 => pc(t) # "ip_79"

\* C3 (as claimed): a setup_database() called with the failure counter above
\* the retry ceiling while the server is reachable returns True and leaves a
\* pool in place, the counter at 0 and the gate open, a connection waiting
\* for the next get_connection().
C3_RepairRecovers ==
    \A t \in Threads :
        (Done(t) /\ th[t].op = "setup_database" /\ th[t].sOver
                 /\ dbState = "up")
        => /\ th[t].ret = BoolV(TRUE)
           /\ pool # None /\ poolFree > 0
           /\ _error_count = 0 /\ ~Gated

\* C4: with the server unreachable, setup_database() issues no statement (no
\* CREATE TABLE, no seeding read or write), lets no exception out and returns
\* False.
C4_UnreachableSetupFails ==
    \A t \in Threads :
        (th[t].op = "setup_database" /\ dbState = "down")
        => /\ ~th[t].stmts
           /\ th[t].exc = NoExc
           /\ Done(t) => th[t].ret = BoolV(FALSE)

\* A setup_database() that ended against an unreachable server whose pool
\* had been built before.
C4_Witness ==
    \E t \in Threads :
        /\ Done(t) /\ th[t].op = "setup_database" /\ dbState = "down"
        /\ pool # None

\* C5 (as claimed): execute_select and execute_write give back every
\* connection they got before they return.
C5_AlwaysReleased ==
    \A t \in Threads :
        (Done(t) /\ th[t].op \in {"execute_select", "execute_write"})
        => ~th[t].leaked

\* C6 (as claimed): is_connected gives back the connection it got before it
\* returns, also when the probe fails.
C6_ProbeAlwaysReleases ==
    \A t \in Threads :
        (Done(t) /\ th[t].op = "is_connected") => ~th[t].leaked

\* C7 (as claimed): is_connected returns True if and only if a connection
\* was acquired and the SELECT 1 probe (execute and fetchone) went through.
C7_TrueIffProbed ==
    \A t \in Threads :
        (Done(t) /\ th[t].op = "is_connected")
        => (th[t].ret = BoolV(TRUE)
            <=> th[t].run \in {"ok", "cursor_close", "conn_close"})

\* C7 (amended): is_connected returns True if and only if a connection was
\* acquired and cursor(), execute, fetchone, cursor.close() and conn.close()
\* all went through; it returns False otherwise.
C7_TrueIffCleanRun ==
    \A t \in Threads :
        (Done(t) /\ th[t].op = "is_connected")
        => /\ th[t].ret \in {BoolV(TRUE), BoolV(FALSE)}
           /\ th[t].ret = BoolV(TRUE) <=> th[t].run = "ok"

\* An is_connected() that returned False because the probe's execute raised.
C7_Witness ==
    \E t \in Threads :
        /\ Done(t) /\ th[t].op = "is_connected"
        /\ th[t].run = "execute" /\ th[t].ret = BoolV(FALSE)

\* C8: execute_write returns the statement's affected-row count (0 as 0, not
\* None) when cursor(), execute and commit went through, and None exactly
\* when no connection was acquired or one of the three raised; what close()
\* does afterwards changes nothing.
C8_WriteReturnsRowcount ==
    \A t \in Threads :
        (Done(t) /\ th[t].op = "execute_write")
        => /\ th[t].run = "ok" => th[t].ret = IntV(th[t].rows)
           /\ th[t].ret = NoneV <=> th[t].run # "ok"

\* An execute_write() whose statement matched no row.
C8_Witness ==
    \E t \in Threads :
        /\ Done(t) /\ th[t].op = "execute_write"
        /\ th[t].run = "ok" /\ th[t].rows = 0 /\ th[t].ret = IntV(0)

\* C9: execute_select returns None exactly when no connection was acquired
\* or cursor(), execute or fetchall raised, and the fetched rows (an empty
\* list for no rows) whenever they went through.
C9_SelectNoneOnlyOnFault ==
    \A t \in Threads :
        (Done(t) /\ th[t].op = "execute_select")
        => /\ th[t].run = "ok" => th[t].ret = RowsV(th[t].rows)
           /\ th[t].ret = NoneV
                <=> th[t].run \in {"none", "cursor", "execute", "fetchall"}

\* An execute_select() that matched no row.
C9_Witness ==
    \E t \in Threads :
        /\ Done(t) /\ th[t].op = "execute_select"
        /\ th[t].run = "ok" /\ th[t].rows = 0 /\ th[t].ret = RowsV(0)

\* C10: constructing the Database object attempts no connection: until a
\* request calls into it there is no pool, the flags and the counter are as
\* __init__ set them and no pool construction has been attempted.
C10_LazyConstruction ==
    ~started => /\ pool = None
                /\ ~_initialized /\ ~_connection_error
                /\ _error_count = 0
                /\ ~attempted

\* The object stands constructed against an unreachable server, untouched.
C10_Witness == ~started /\ dbState = "down" /\ pool = None

\* The methods that ask get_connection() for one connection and use it.
Users == {"is_connected", "execute_select", "execute_write"}

\* C11: the first execute_select on the object as constructed, the server
\* reachable, builds the pool exactly once, leaves the pool in place with the
\* initialized flag set and the failure counter at 0, and returns the rows
\* of the query.
C11_FirstSelectBuildsPool ==
    \A t \in Threads :
        (Done(t) /\ th[t].op = "execute_select" /\ th[t].fresh
                 /\ dbState = "up")
        => /\ poolsBuilt = 1 /\ pool = 1
           /\ _initialized /\ ~_connection_error /\ _error_count = 0
           /\ th[t].run = "ok" /\ th[t].ret = RowsV(th[t].rows)
           /\ ~th[t].leaked /\ poolFree = pool_size

\* A first execute_select that returned one row.
C11_Witness ==
    \E t \in Threads :
        /\ Done(t) /\ th[t].op = "execute_select" /\ th[t].fresh
        /\ dbState = "up" /\ th[t].ret = RowsV(1)

\* C12: while no pool exists and the failure counter is below the ceiling, a
\* connection request goes to _init_pool() and on to the pool constructor;
\* and a request made in that state with the server reachable ends with the
\* pool built and its connection obtained.
C12_RetryBelowCeiling ==
    /\ [](\A t \in Threads :
            (Done(t) /\ th[t].op \in Users /\ th[t].below /\ dbState = "up")
            => /\ pool # None /\ _initialized /\ _error_count = 0
               /\ th[t].run = "ok")
    /\ [][\A t \in Threads :
            (/\ th[t].stk # th'[t].stk
             /\ pool = None /\ _error_count < _max_retries)
            => /\ pc(t) = "gc_103" => pc(t)' = "ip_56"
               /\ pc(t) = "ip_56" => pc(t)' = "ip_79"]_vars

\* A request that found no pool after a failed construction and, the
\* server back, got its connection.
C12_Witness ==
    \E t \in Threads :
        /\ Done(t) /\ th[t].op = "is_connected" /\ th[t].below
        /\ ~th[t].fresh /\ dbState = "up" /\ th[t].ret = BoolV(TRUE)

\* Where _init_pool() returns to when an error handler called it: the
\* handlers of get_connection (lines 134, 137), execute_select (185, 188)
\* and execute_write (237, 240).
ReinitConts == {"gc_139", "sel_196", "wr_255"}

\* C13 (as claimed): the _init_pool() that a handler calls on a transient
\* fault signature goes on to the pool constructor, so that a new pool object
\* takes the place of the existing one.
C13_TransientFaultRebuilds ==
    [][\A t \in Threads :
        (/\ pc(t) = "ip_56" /\ th[t].stk # th'[t].stk
         /\ th[t].stk[2] \in ReinitConts)
        => pc(t)' = "ip_79"]_vars

\* C15 (as claimed): a connection get_connection() handed to its caller has
\* passed the conn.is_connected() test of line 114.
C15_OnlyActiveConnections ==
    \A t \in Threads : th[t].conn # None => th[t].live

\* C16 (as claimed): however the first requests of the threads overlap, no
\* more than one pool object is ever constructed.
C16_PoolBuiltOnce == poolsBuilt <= 1

\* C19: create_tables issues each of its four statements through
\* execute_write whatever became of the ones before, counts a success exactly
\* for a statement that ran through, and returns, after the fourth, True if
\* and only if at least one succeeded.
C19_CreateTablesBatch ==
    [][\A t \in Threads :
        th[t].stk # th'[t].stk =>
          /\ (pc(t) = "ct_332" /\ th[t].i < NumTables)
             => /\ SubSeq(th'[t].stk, 1, 2) = <<"gc_103", "wr_212">>
                /\ th'[t].i = th[t].i /\ th'[t].succ = th[t].succ
          /\ (pc(t) = "ct_332" /\ th[t].i >= NumTables)
             => /\ th[t].i = NumTables
                /\ th'[t].stk = Tail(th[t].stk)
                /\ th'[t].ret = BoolV(th[t].succ > 0)
          /\ pc(t) = "ct_334"
             => /\ pc(t)' = "ct_332"
                /\ th'[t].i = th[t].i + 1
                /\ th'[t].succ =
                      th[t].succ + (IF th[t].run = "ok" THEN 1 ELSE 0)]_vars

\* create_tables has returned True although its last statement failed.
C19_Witness ==
    \E t \in Threads :
        /\ pc(t) = "sd_449" /\ th[t].ret = BoolV(TRUE)
        /\ th[t].run # "ok"

\* C20: in execute_write the commit comes after an execute that went through
\* and before the connection is given back; when cursor(), execute or commit
\* raised, a rollback has been tried by the time the finally block gives the
\* connection back, whether or not the rollback itself failed, no exception
\* is left, and the call returns None.
C20_CommitThenRollback ==
    \A t \in Threads :
        /\ (pc(t) = "wr_255" /\ th[t].conn # None)
           => /\ th[t].exc = NoExc
              /\ th[t].run = "ok"
                 => th[t].rb = "none" /\ th[t].pend = IntV(th[t].rows)
              /\ th[t].run # "ok"
                 => /\ th[t].run \in {"cursor", "execute", "commit"}
                    /\ th[t].rb \in {"ok", "failed"}
                    /\ th[t].pend = NoneV
        /\ (Done(t) /\ th[t].op = "execute_write"
                    /\ th[t].run \in {"cursor", "execute", "commit"})
           => th[t].ret = NoneV /\ th[t].exc = NoExc /\ th[t].conn = None

\* An execute_write whose commit raised and whose rollback failed as well,
\* about to give its connection back.
C20_Witness ==
    \E t \in Threads :
        /\ pc(t) = "wr_255" /\ th[t].conn # None /\ th[t].op = "execute_write"
        /\ th[t].run = "commit" /\ th[t].rb = "failed"

\* C14: however often the bootstrap runs against a healthy server, one run
\* after another or two at a time, admin_users never holds more than one
\* 'admin' row and settings never more than one row per default key; and
\* once a run has finished there is exactly one of each.
C14_BootstrapIdempotent ==
    /\ tables.admin <= 1
    /\ \A k \in SettingKeys : tables.settings[k] <= 1
    /\ (\E t \in Threads : Done(t) /\ th[t].op \in Bootstraps)
       => /\ tables.admin = 1
          /\ \A k \in SettingKeys : tables.settings[k] = 1

\* Two overlapping runs: one has finished, the other's INSERT of the admin
\* row was refused because the first had put the row in meanwhile.
C14_Witness ==
    \E t, u \in Threads :
        /\ Done(u) /\ th[u].op = "setup_database"
        /\ pc(t) = "fx_396" /\ th[t].run = "execute" /\ th[t].ret = NoneV
        /\ \A k \in SettingKeys : tables.settings[k] = 1

\* C17: a handler that got None from execute_select or execute_write answers
\* with the error envelope (success false) and status 503 or 500, never with
\* 200, 201 or 404.
C17_NoneIsUnavailable ==
    (web.sel = NoneV \/ web.wr = NoneV) =>
        (web.status \in {500, 503} /\ ~web.success)

\* C18: every stored project has a non-empty title and a non-empty
\* description after admin_create_project and admin_update_project.
C18_ProjectsHaveTitleAndDescription ==
    \A i \in ProjectIds :
        tables.projects[i].live =>
            (tables.projects[i].title # <<>> /\ tables.projects[i].description # <<>>)

\* C21 (as claimed): the counter counts consecutive failures, so that at the
\* moment get_connection() returns a connection _error_count is 0, whatever
\* failed before.
C21_CounterClearedOnSuccess ==
    [][\A t \in Threads :
        (th[t].conn = None /\ th'[t].conn # None) => _error_count' = 0]_vars

\* C22: setup_database() returns True exactly when its is_connected() probe
\* of line 437 passed, whatever became of the table-creation and seeding
\* statements after it, so that the repair endpoint answers with success
\* exactly when the probe passed.
C22_SetupTrueIffProbePassed ==
    \A t \in Threads :
        (Done(t) /\ th[t].op = "setup_database")
        => /\ th[t].probe \in {"passed", "failed"}
           /\ th[t].ret = BoolV(th[t].probe = "passed")
           /\ fix_database(Truthy(th[t].ret)).success <=> th[t].probe = "passed"

\* setup_database() has returned True although a CREATE TABLE failed and the
\* last statement of the repair pass did not run through.
C22_Witness ==
    \E t \in Threads :
        /\ Done(t) /\ th[t].op = "setup_database"
        /\ th[t].probe = "passed" /\ th[t].ret = BoolV(TRUE)
        /\ th[t].fail /\ th[t].run # "ok"

\* C23 (as claimed): a pool initialization that fails never discards a pool
\* that is there: when one thread's construction succeeds while another's
\* fails, the pool that was built is still held afterwards.
C23_FailedInitKeepsPool == [][pool # None => pool' # None]_vars

\* C24: the repair pass inserts only rows that are missing: a setting key
\* that is there and an 'admin' account that is there are left as they are,
\* whatever the SELECTs before the INSERTs answered; and a repair pass whose
\* is_connected() was False issues no statement at all.
C24_RepairInsertsOnlyMissing ==
    /\ [](\A t \in Threads :
            (Done(t) /\ th[t].op = "fix_database_issues"
                /\ th[t].ret = BoolV(FALSE)) => ~th[t].stmts)
    /\ [][/\ tables.admin > 0 => tables'.admin = tables.admin
          /\ \A k \in SettingKeys :
                tables.settings[k] > 0 => tables'.settings[k] = tables.settings[k]
          /\ tables' # tables =>
                \E t \in Threads : pc(t) = "wr_212" /\ th[t].stmts]_vars

\* The SELECT for a setting key that is there failed, the repair pass issued
\* the INSERT for it, and the INSERT is back with the key's row as it was.
C24_Witness ==
    \E t \in Threads :
        /\ th[t].op = "fix_database_issues" /\ pc(t) = "fx_420"
        /\ th[t].q = "setting" /\ th[t].key = 1
        /\ th[t].conn = None /\ th[t].run = "execute"
        /\ tables.settings[1] = 1

\* C25 (as claimed): admin_update_settings answers with success only when
\* every write of its loop went through; when an execute_write returned None
\* the response is an error.
C25_SettingsAllPersisted ==
    (web.h = "admin_update_settings" /\ web.wr = NoneV) =>
        (~web.success /\ web.status >= 400)

\* C26: the main page handler redirects to /maintenance if and only if the
\* query came back with a row whose value is 'enabled'; with None, no row, a
\* NULL value, another value or an exception it serves the main page.
C26_RedirectIffEnabled ==
    web.h = "main_index" =>
        /\ web.status \in {Redirect, MainPage}
        /\ web.status = Redirect <=> web.res = "enabled"

\* The main page was served although execute_select returned None.
C26_Witness ==
    web.h = "main_index" /\ web.res = "None" /\ web.status = MainPage

\* C27: whenever no method of db is running on any thread, a pool that is
\* there implies _initialized and not _connection_error; and _initialized,
\* once True, stays True, however the requests of the threads interleave.
C27_PoolImpliesInitialized ==
    /\ []((\A t \in Threads : Quiet(t))
            => (pool # None => (_initialized /\ ~_connection_error)))
    /\ [][_initialized => _initialized']_vars

\* No method is running and the pool is there, after a construction on one
\* thread failed while the other thread was inside _init_pool and a second
\* pool object was built.
C27_Witness ==
    /\ \A t \in Threads : Quiet(t)
    /\ pool # None /\ poolsBuilt = 2
    /\ _initialized /\ ~_connection_error

====
